---- MODULE Spec2Model ----
(***************************************************************************)
(* Model of yt-transcriber (src/app.py): the two Flask handlers            *)
(* transcribe (/api/v1/transcribe) and transcribe_openai                   *)
(* (/api/v2/transcribe), the helpers they call (clean_youtube_url,         *)
(* download_audio, transcribe_audio_local, transcribe_audio_openai) and    *)
(* the temp directory they share.                                          *)
(*                                                                         *)
(* A string is a sequence of tokens.  The delimiters the URL parser looks  *)
(* for ("?", "#", "&", "=", "+") and the percent escapes are tokens of     *)
(* their own; every other token is a run of characters without any         *)
(* delimiter (a scheme and host, a name, a value).                         *)
(***************************************************************************)
EXTENDS Naturals, Sequences, FiniteSets, TLC

\* Concurrent requests in flight (Flask serves each request on its own thread).
NumReqs == 2
\* Largest number of "&"-separated segments in a generated query string.
MaxParams == 2

None == "None"

(***************************************************************************)
(* urllib.parse as clean_youtube_url uses it                               *)
(***************************************************************************)
RECURSIVE IndexFrom(_, _, _)
\* s.find(c) from position i on, 1-based; 0 when c does not occur
IndexFrom(s, c, i) ==
    IF i > Len(s) THEN 0
    ELSE IF s[i] = c THEN i
    ELSE IndexFrom(s, c, i + 1)

IndexOf(s, c) == IndexFrom(s, c, 1)

RECURSIVE Split(_, _)
\* s.split(d): the pieces of s between the occurrences of d
Split(s, d) ==
    LET i == IndexOf(s, d)
    IN  IF i = 0 THEN << s >>
        ELSE << SubSeq(s, 1, i - 1) >> \o Split(SubSeq(s, i + 1, Len(s)), d)

\* The netloc chunks urlsplit rejects: a "[" without its "]" raises
\* ValueError("Invalid IPv6 URL").
InvalidNetlocChunks == { "http://[youtube.com/watch" }

\* urlparse(url) raises instead of returning
UrlparseRaises(url) ==
    /\ Len(url) > 0
    /\ url[1] \in InvalidNetlocChunks

\* urlparse(url).query: what lies between the first "?" and the first "#",
\* the fragment being split off first
UrlQuery(url) ==
    LET h == IndexOf(url, "#")
        u == IF h = 0 THEN url ELSE SubSeq(url, 1, h - 1)
        q == IndexOf(u, "?")
    IN  IF q = 0 THEN << >> ELSE SubSeq(u, q + 1, Len(u))

\* unquote(c.replace('+', ' ')) on one token
UnquoteToken(c) ==
    CASE c = "+"   -> " "
      [] c = "%76" -> "v"
      [] c = "%26" -> "&"
      [] OTHER     -> c

Unquote(s) == [i \in 1..Len(s) |-> UnquoteToken(s[i])]

\* TRUE when parse_qsl keeps the segment: it has an "=" and a non-blank
\* value (keep_blank_values is False, strict_parsing is False)
SegmentKept(seg) ==
    LET e == IndexOf(seg, "=")
    IN  e # 0 /\ e < Len(seg)

RECURSIVE PairsOf(_)
\* the << name, value >> pairs of a sequence of segments, in order
PairsOf(segs) ==
    IF segs = << >> THEN << >>
    ELSE LET seg == Head(segs)
             e   == IndexOf(seg, "=")
         IN  IF SegmentKept(seg)
             THEN << << Unquote(SubSeq(seg, 1, e - 1)),
                        Unquote(SubSeq(seg, e + 1, Len(seg))) >> >>
                  \o PairsOf(Tail(segs))
             ELSE PairsOf(Tail(segs))

\* parse_qsl(query): the decoded pairs of the "&"-separated segments
ParseQsl(query) == PairsOf(Split(query, "&"))

RECURSIVE ValuesOf(_, _)
\* parse_qs(query).get(name, []): the values of every pair called name, in
\* the order of the query
ValuesOf(pairs, name) ==
    IF pairs = << >> THEN << >>
    ELSE IF Head(pairs)[1] = name
         THEN << Head(pairs)[2] >> \o ValuesOf(Tail(pairs), name)
         ELSE ValuesOf(Tail(pairs), name)

\* a plausible slip: [-1] instead of [0]
PickLastValue(vals) == vals[Len(vals)]

\* query_params.get('v', [None])[0] on a non-empty list
PickVideoId(vals) == vals[1]

WatchPrefix == << "https://www.youtube.com/watch", "?", "v", "=" >>

\* clean_youtube_url on a string the parser accepts.  A missing "v" gives
\* video_id = None and parse_qs never keeps a blank value, so "if video_id"
\* is the test that the list is not empty.
clean_youtube_url(url) ==
    LET vals == ValuesOf(ParseQsl(UrlQuery(url)), << "v" >>)
    IN  IF vals # << >> /\ PickVideoId(vals) # << >>
        THEN WatchPrefix \o PickVideoId(vals)
        ELSE url

(***************************************************************************)
(* Requests, responses and the environment's answers                       *)
(***************************************************************************)
Reqs == 1..NumReqs

Endpoints == { "v1", "v2" }

\* JSON values of the youtube_url field: data.get returns None for a missing
\* key, so a missing field and an explicit null are the same value.
JNull == [t |-> "null", s |-> << >>]
JStr(s) == [t |-> "str", s |-> s]
JInt(n) == [t |-> "int", s |-> << n >>]

\* Python truthiness of a JSON value ("if not youtube_url")
Truthy(v) ==
    CASE v.t = "null" -> FALSE
      [] v.t = "str"  -> v.s # << >>
      [] v.t = "int"  -> v.s # << "0" >>

\* the URLs the handlers are run on
UrlInputs ==
    { << "https://www.youtube.com/watch", "?", "v", "=", "XYZ", "&", "t", "=", "30s" >>,
      << "http://[youtube.com/watch", "?", "v", "=", "XYZ" >> }

\* bodies that request.get_json() returns: a JSON object, or any other JSON
\* value (an array, a number, null), which has no .get
Bodies(urls) ==
    { [shape |-> "array", youtube_url |-> JNull] }
    \cup { [shape |-> "object", youtube_url |-> v] :
             v \in { JNull, JStr(<< >>), JInt("123") } \cup { JStr(u) : u \in urls } }

RequestsOver(urls) ==
    { [endpoint |-> e, is_json |-> FALSE, body |-> [shape |-> "array", youtube_url |-> JNull]] :
        e \in Endpoints }
    \cup { [endpoint |-> e, is_json |-> TRUE, body |-> b] : e \in Endpoints, b \in Bodies(urls) }

Requests == RequestsOver(UrlInputs)

NoRequest == [endpoint |-> "none", is_json |-> FALSE,
              body |-> [shape |-> "array", youtube_url |-> JNull]]

\* jsonify({"success", "message", "data"}), status
Envelope(status, success, message, data) ==
    [envelope |-> TRUE, status |-> status, success |-> success,
     message |-> message, data |-> data]

\* an exception that leaves the view function: Flask answers with its own
\* 500 page, which is not the envelope
Unhandled(exc) ==
    [envelope |-> FALSE, status |-> 500, success |-> FALSE,
     message |-> exc, data |-> None]

NoResp == [envelope |-> FALSE, status |-> 0, success |-> FALSE,
           message |-> None, data |-> None]

\* files the downloader may leave under <base>.<ext>: the probed extensions
\* and the partial download
\* a plausible slip: the first two candidates in the other order
CandidateExtsSwapped == << "mp3", "m4a", "webm", "opus" >>

CandidateExts == << "m4a", "mp3", "webm", "opus" >>
DownloaderExts == { "webm", "part" }
DownloadResults == { "ok", "timeout", "error" }
Stderr == "ERROR: Video unavailable"
Texts == { "hello world" }
BackendResults == { [ok |-> TRUE, val |-> t] : t \in Texts }
                  \cup { [ok |-> FALSE, val |-> "connection reset"] }

\* what a backend function gave its caller: its text, or the str() of the
\* exception it raised
NoReturn == [ok |-> FALSE, val |-> None]
NoOutcome == [dl |-> "none", written |-> { }, tr |-> "none", rm |-> "none",
              ret |-> NoReturn]
NoCalls == [parsed |-> 0, subprocess |-> 0, backend |-> 0, opened |-> 0,
            api |-> 0, remove |-> 0]

(***************************************************************************)
(* State                                                                   *)
(***************************************************************************)
VARIABLES
    pc,                     \* where each request's handler stands
    request,                \* the request each handler was called with
    youtube_url,            \* the URL handed to download_audio
    unique_filename,        \* str(uuid.uuid4())
    downloaded_audio_file,  \* the handler's local of that name
    resp,                   \* the value of the handler's return statement
    stages,                 \* the stages each handler has gone through
    outcome,                \* what the downloader, the backend and os.remove answered
    calls,                  \* how often each handler parsed the body, started
                            \* the downloader, called a backend, opened the
                            \* audio file, called the remote API, called os.remove
    fs,                     \* the files in TEMP_AUDIO_DIR
    OPENAI_API_KEY,         \* TRUE when the credential is set
    in_whisper              \* the requests inside whisper_model.transcribe

vars == << pc, request, youtube_url, unique_filename, downloaded_audio_file,
           resp, stages, outcome, calls, fs, OPENAI_API_KEY, in_whisper >>

NoFile == << >>
NoUrl == << >>

\* uuid4 never repeats: request r draws the r-th token
uuid4(r) == "uuid-" \o ToString(r)

\* os.path.join(TEMP_AUDIO_DIR, base) + "." + ext
PathOf(base, ext) == << base, ext >>

Init ==
    /\ pc = [r \in Reqs |-> "idle"]
    /\ request = [r \in Reqs |-> NoRequest]
    /\ youtube_url = [r \in Reqs |-> NoUrl]
    /\ unique_filename = [r \in Reqs |-> None]
    /\ downloaded_audio_file = [r \in Reqs |-> NoFile]
    /\ resp = [r \in Reqs |-> NoResp]
    /\ stages = [r \in Reqs |-> << >>]
    /\ outcome = [r \in Reqs |-> NoOutcome]
    /\ calls = [r \in Reqs |-> NoCalls]
    /\ fs = { }
    /\ OPENAI_API_KEY \in BOOLEAN
    /\ in_whisper = { }

(***************************************************************************)
(* download_audio after the subprocess has ended                           *)
(***************************************************************************)
RECURSIVE ProbeFrom(_, _, _)
\* the loop over ['m4a', 'mp3', 'webm', 'opus']: the first candidate that
\* exists, NoFile when the loop ends
ProbeFrom(fsys, base, i) ==
    IF i > Len(CandidateExts) THEN NoFile
    ELSE IF PathOf(base, CandidateExts[i]) \in fsys
         THEN PathOf(base, CandidateExts[i])
         ELSE ProbeFrom(fsys, base, i + 1)

\* a plausible slip: look for any audio file in the directory, whatever its
\* base name
ProbeAnyBase(fsys, base) ==
    LET c == { p \in fsys : \E i \in 1..Len(CandidateExts) : p[2] = CandidateExts[i] }
    IN  IF c = { } THEN NoFile ELSE CHOOSE p \in c : TRUE

\* a plausible slip: return the first candidate without os.path.exists
ProbeNoExists(fsys, base) == PathOf(base, CandidateExts[1])

Probe(fsys, base) == ProbeFrom(fsys, base, 1)

\* the exception download_audio raises, None when it returns a path
DownloadError(result, found, base) ==
    CASE result = "timeout" -> "Download timed out"
      [] result = "error"   -> "yt-dlp error: " \o Stderr
      [] result = "ok" /\ found = NoFile ->
             "Downloaded audio file not found for: temp_audio_files/" \o base
      [] OTHER -> None

(***************************************************************************)
(* The handlers                                                            *)
(***************************************************************************)
\* a plausible slip: request.get_json() ahead of the content-type check
GetJsonAlways(req) == TRUE

\* request.get_json() is reached only past the 415 return
GetJsonReached(req) == req.is_json

\* "if not request.is_json": the request is turned away before get_json
RejectedByContentType(req) == ~ req.is_json

\* the exception raised between get_json and the try block, None when the
\* handler gets to the try block or returns 400
\*   data.get on a body that is no object: AttributeError
\*   urlparse on a value that is no string: AttributeError
\*   urlparse on a netloc it rejects: ValueError
PreTryError(req) ==
    LET v == req.body.youtube_url
    IN  CASE req.body.shape # "object" -> "AttributeError"
          [] ~ Truthy(v) -> None
          [] v.t # "str" -> "AttributeError"
          [] UrlparseRaises(v.s) -> "ValueError"
          [] OTHER -> None

\* a plausible slip: a retry wrapper that runs the downloader a second time
SubprocessStartsTwice(n) == n + 2

\* the one subprocess.run of download_audio, called once by the handler
SubprocessStarts(n) == n + 1

\* lines 122-143 (166-187): from the call of the handler to the start of the
\* downloader subprocess
Receive(r, req) ==
    /\ pc[r] = "idle"
    /\ request' = [request EXCEPT ![r] = req]
    /\ IF RejectedByContentType(req)
       THEN /\ resp' = [resp EXCEPT ![r] =
                   Envelope(415, FALSE, "Content-Type must be application/json", None)]
            /\ stages' = [stages EXCEPT ![r] = << "Received", "Failed" >>]
            /\ pc' = [pc EXCEPT ![r] = "done"]
            /\ calls' = [calls EXCEPT ![r].parsed =
                   IF GetJsonReached(req) THEN 1 ELSE 0]
            /\ UNCHANGED << youtube_url, unique_filename >>
       ELSE IF PreTryError(req) # None
       THEN /\ resp' = [resp EXCEPT ![r] = Unhandled(PreTryError(req))]
            /\ stages' = [stages EXCEPT ![r] =
                   IF req.body.shape = "object"
                   THEN << "Received", "Normalizing", "Failed" >>
                   ELSE << "Received", "Failed" >>]
            /\ pc' = [pc EXCEPT ![r] = "done"]
            /\ calls' = [calls EXCEPT ![r].parsed = 1]
            /\ UNCHANGED << youtube_url, unique_filename >>
       ELSE IF ~ Truthy(req.body.youtube_url)
       THEN /\ resp' = [resp EXCEPT ![r] =
                   Envelope(400, FALSE, "Missing youtube_url", None)]
            /\ stages' = [stages EXCEPT ![r] = << "Received", "Failed" >>]
            /\ pc' = [pc EXCEPT ![r] = "done"]
            /\ calls' = [calls EXCEPT ![r].parsed = 1]
            /\ UNCHANGED << youtube_url, unique_filename >>
       ELSE /\ youtube_url' = [youtube_url EXCEPT ![r] =
                   clean_youtube_url(req.body.youtube_url.s)]
            /\ unique_filename' = [unique_filename EXCEPT ![r] = uuid4(r)]
            /\ stages' = [stages EXCEPT ![r] =
                   << "Received", "Normalizing", "Downloading" >>]
            /\ calls' = [calls EXCEPT ![r].parsed = 1,
                                          ![r].subprocess = SubprocessStarts(@)]
            /\ pc' = [pc EXCEPT ![r] = "downloading"]
            /\ UNCHANGED resp
    /\ UNCHANGED << downloaded_audio_file, outcome, fs, OPENAI_API_KEY, in_whisper >>

\* a plausible slip: no check of the credential
CredentialNeverMissing(key) == FALSE

\* "if not OPENAI_API_KEY" at the head of transcribe_audio_openai
CredentialMissing(key) == ~ key

\* RuntimeError("OpenAI API key not configured")
KeyError == [ok |-> FALSE, val |-> "OpenAI API key not configured"]

\* a plausible slip of the copied handler: another text on the v2 route
RespondOwnText(endpoint, ret) ==
    IF ret.ok
    THEN Envelope(200, TRUE,
             IF endpoint = "v2" THEN "OpenAI transcription completed"
             ELSE "Transcription completed", ret.val)
    ELSE Envelope(500, FALSE, ret.val, None)

\* lines 150-153 (194-197): the return statements of the try block and of
\* its except clause
Respond(endpoint, ret) ==
    IF ret.ok
    THEN Envelope(200, TRUE, "Transcription completed", ret.val)
    ELSE Envelope(500, FALSE, ret.val, None)

\* lines 143-147 (187-191): the subprocess has ended, having written the
\* files named by exts under the handler's base name; download_audio probes
\* and raises or returns, and the handler calls its backend
DownloadReturn(r, result, exts) ==
    LET base  == unique_filename[r]
        fs1   == fs \cup { PathOf(base, e) : e \in exts }
        found == IF result = "ok" THEN Probe(fs1, base) ELSE NoFile
        err   == DownloadError(result, found, base)
        v2    == request[r].endpoint = "v2"
    IN  /\ pc[r] = "downloading"
        /\ fs' = fs1
        /\ IF err # None
           THEN /\ resp' = [resp EXCEPT ![r] = Envelope(500, FALSE, err, None)]
                /\ outcome' = [outcome EXCEPT ![r].dl = result, ![r].written = exts]
                /\ pc' = [pc EXCEPT ![r] = "finally"]
                /\ UNCHANGED << downloaded_audio_file, stages, calls, in_whisper >>
           ELSE /\ downloaded_audio_file' = [downloaded_audio_file EXCEPT ![r] = found]
                /\ stages' = [stages EXCEPT ![r] = Append(@, "Transcribing")]
                /\ IF v2 /\ CredentialMissing(OPENAI_API_KEY)
                   THEN /\ resp' = [resp EXCEPT ![r] =
                               Respond(request[r].endpoint, KeyError)]
                        /\ outcome' = [outcome EXCEPT ![r].dl = result,
                                          ![r].written = exts, ![r].tr = "nokey",
                                          ![r].ret = KeyError]
                        /\ calls' = [calls EXCEPT ![r].backend = @ + 1]
                        /\ pc' = [pc EXCEPT ![r] = "finally"]
                        /\ UNCHANGED in_whisper
                   ELSE /\ outcome' = [outcome EXCEPT ![r].dl = result, ![r].written = exts]
                        /\ calls' = [calls EXCEPT
                               ![r].backend = @ + 1,
                               ![r].opened = IF v2 THEN @ + 1 ELSE @,
                               ![r].api = IF v2 THEN @ + 1 ELSE @]
                        /\ in_whisper' = IF v2 THEN in_whisper ELSE in_whisper \cup { r }
                        /\ pc' = [pc EXCEPT ![r] = "transcribing"]
                        /\ UNCHANGED resp
        /\ UNCHANGED << request, youtube_url, unique_filename, OPENAI_API_KEY >>

\* str(e) of the exception the backend's caller sees: the local backend lets
\* the model's exception through, the remote one wraps it in a RuntimeError
BackendError(endpoint, e) ==
    IF endpoint = "v2" THEN "OpenAI Whisper API error: " \o e ELSE e

\* what transcribe_audio_local / transcribe_audio_openai gives the handler
\* when the model or the remote API answers res
BackendReturn(endpoint, res) ==
    [ok |-> res.ok,
     val |-> IF res.ok THEN res.val ELSE BackendError(endpoint, res.val)]

\* lines 147-153 (191-197): the backend returns its text or raises, and the
\* handler evaluates its return statement
TranscribeReturn(r, res) ==
    /\ pc[r] = "transcribing"
    /\ in_whisper' = in_whisper \ { r }
    /\ resp' = [resp EXCEPT ![r] =
           Respond(request[r].endpoint, BackendReturn(request[r].endpoint, res))]
    /\ outcome' = [outcome EXCEPT ![r].tr = IF res.ok THEN "ok" ELSE "raised",
                                  ![r].ret = BackendReturn(request[r].endpoint, res)]
    /\ pc' = [pc EXCEPT ![r] = "finally"]
    /\ UNCHANGED << request, youtube_url, unique_filename, downloaded_audio_file,
                    stages, calls, fs, OPENAI_API_KEY >>

\* a plausible slip: the removal on the success path only (after the return
\* statement's try, not in a finally)
RemoveOnSuccessOnly(file, fsys, response) ==
    file # NoFile /\ file \in fsys /\ response.success

\* a plausible slip: a handler without its finally block
RemoveNever(file, fsys, response) == FALSE

\* "if downloaded_audio_file and os.path.exists(downloaded_audio_file)"
RemoveAttempted(file, fsys, response) == file # NoFile /\ file \in fsys

\* a plausible slip: os.remove without its try/except, so that its exception
\* replaces the pending return value
RemoveErrorEscapes(response, removed) ==
    IF removed THEN response ELSE Unhandled("OSError")

\* the try/except around os.remove logs the error: the pending return value
\* is what the handler returns
AfterRemove(response, removed) == response

\* lines 154-162 (198-206): the finally block, then the handler returns
Finally(r, removed) ==
    LET file == downloaded_audio_file[r]
        try  == RemoveAttempted(file, fs, resp[r])
        out  == IF try THEN AfterRemove(resp[r], removed) ELSE resp[r]
    IN  /\ pc[r] = "finally"
        /\ fs' = IF try /\ removed THEN fs \ { file } ELSE fs
        /\ calls' = [calls EXCEPT ![r].remove = IF try THEN @ + 1 ELSE @]
        /\ outcome' = [outcome EXCEPT ![r].rm =
               IF ~ try THEN "skipped" ELSE IF removed THEN "ok" ELSE "raised"]
        /\ resp' = [resp EXCEPT ![r] = out]
        /\ stages' = [stages EXCEPT ![r] =
               @ \o << "CleaningUp", IF out.success THEN "Completed" ELSE "Failed" >>]
        /\ pc' = [pc EXCEPT ![r] = "done"]
        /\ UNCHANGED << request, youtube_url, unique_filename, downloaded_audio_file,
                        OPENAI_API_KEY, in_whisper >>

Next ==
    \/ \E r \in Reqs, req \in Requests : Receive(r, req)
    \/ \E r \in Reqs, result \in DownloadResults, exts \in SUBSET DownloaderExts :
           DownloadReturn(r, result, exts)
    \/ \E r \in Reqs, res \in BackendResults : TranscribeReturn(r, res)
    \/ \E r \in Reqs, removed \in BOOLEAN : Finally(r, removed)

Spec == Init /\ [][Next]_vars

(***************************************************************************)
(* download_audio on every set of files a zero-exit downloader can leave   *)
(* under the base name: the four candidates, a partial file and a video    *)
(***************************************************************************)
ProbeExts == { "m4a", "mp3", "webm", "opus", "part", "mp4" }

ProbeRequests ==
    { q \in Requests :
        /\ q.is_json
        /\ q.body.shape = "object"
        /\ q.body.youtube_url.t = "str"
        /\ q.body.youtube_url.s # << >>
        /\ ~ UrlparseRaises(q.body.youtube_url.s) }

NextProbe ==
    \/ \E req \in ProbeRequests : Receive(1, req)
    \/ \E exts \in SUBSET ProbeExts : DownloadReturn(1, "ok", exts)
    \/ \E res \in BackendResults : TranscribeReturn(1, res)
    \/ \E removed \in BOOLEAN : Finally(1, removed)

SpecProbe == Init /\ [][NextProbe]_vars

(***************************************************************************)
(* The two handlers side by side.  whisper_model.transcribe may raise an   *)
(* exception with any text, among them the texts transcribe_audio_openai   *)
(* raises, so that both backend functions can fail with the same error.    *)
(***************************************************************************)
PairResults ==
    BackendResults
    \cup { [ok |-> FALSE, val |-> BackendError("v2", "connection reset")], KeyError }

PairRequests ==
    { q \in Requests :
        \/ ~ q.is_json
        \/ q.body.shape = "object" /\ q.body.youtube_url.t \in { "null", "int" }
        \/ q.body.shape = "object" /\ q.body.youtube_url.t = "str"
               /\ q.body.youtube_url.s # << >>
               /\ ~ UrlparseRaises(q.body.youtube_url.s) }

\* no file, or the audio file beside a partial file
PairWrites == { { }, DownloaderExts }

NextPair ==
    \/ \E r \in Reqs, req \in PairRequests : Receive(r, req)
    \/ \E r \in Reqs, result \in DownloadResults, exts \in PairWrites :
           DownloadReturn(r, result, exts)
    \/ \E r \in Reqs, res \in PairResults : TranscribeReturn(r, res)
    \/ \E r \in Reqs, removed \in BOOLEAN : Finally(r, removed)

SpecPair == Init /\ [][NextPair]_vars

\* the requests and the downloader outputs the handlers are run on under
\* fairness: a request turned away, one that raises before the try block and
\* one that is downloaded, on either route; no file or the audio file
LiveRequests ==
    { q \in Requests :
        \/ ~ q.is_json
        \/ q.body.shape = "object" /\ q.body.youtube_url.t = "int"
        \/ q.body.shape = "object" /\ q.body.youtube_url.t = "str"
               /\ q.body.youtube_url.s # << >>
               /\ ~ UrlparseRaises(q.body.youtube_url.s) }

LiveWrites == { { }, { "webm" } }

\* The downloader subprocess ends or is killed at its 1200 s timeout, a
\* backend call returns or raises, and a handler that is not blocked goes on
\* to its finally block and returns.
Fairness ==
    \A r \in Reqs :
        /\ WF_vars(\E result \in DownloadResults, exts \in LiveWrites :
                      DownloadReturn(r, result, exts))
        /\ WF_vars(\E res \in BackendResults : TranscribeReturn(r, res))
        /\ WF_vars(\E removed \in BOOLEAN : Finally(r, removed))

\* the handlers under fairness
NextLive ==
    \/ \E r \in Reqs, req \in LiveRequests : Receive(r, req)
    \/ \E r \in Reqs, result \in DownloadResults, exts \in LiveWrites :
           DownloadReturn(r, result, exts)
    \/ \E r \in Reqs, res \in BackendResults : TranscribeReturn(r, res)
    \/ \E r \in Reqs, removed \in BOOLEAN : Finally(r, removed)

SpecLive == Init /\ [][NextLive]_vars /\ Fairness

(***************************************************************************)
(* clean_youtube_url over generated URLs                                   *)
(***************************************************************************)
UrlPrefixes ==
    { << "https://www.youtube.com/watch" >>,
      << "http://youtu.be/abc123" >>,
      << "http://[youtube.com/watch" >> }

\* the "&"-separated segments a generated query is made of
Segments ==
    { << "v", "=", "XYZ" >>,
      << "v", "=", "abc" >>,
      << "v", "=" >>,
      << "v" >>,
      << "v", "=", "a", "+", "b" >>,
      << "%76", "=", "Q" >>,
      << "t", "=", "30s" >>,
      << >> }

Fragments == { << >>, << "#", "?", "v", "=", "frag" >> }

SegmentSeqs == UNION { [1..n -> Segments] : n \in 0..MaxParams }

RECURSIVE Join(_)
\* "&".join(segs)
Join(segs) ==
    IF segs = << >> THEN << >>
    ELSE IF Len(segs) = 1 THEN Head(segs)
    ELSE Head(segs) \o << "&" >> \o Join(Tail(segs))

UrlParts ==
    [prefix : UrlPrefixes, hasq : { TRUE }, segs : SegmentSeqs, frag : Fragments]
    \cup [prefix : UrlPrefixes, hasq : { FALSE }, segs : { << >> }, frag : Fragments]

BuildUrl(p) ==
    p.prefix \o (IF p.hasq THEN << "?" >> \o Join(p.segs) ELSE << >>) \o p.frag

GeneratedUrls == { BuildUrl(p) : p \in UrlParts }

UrlRequests ==
    { [endpoint |-> e, is_json |-> TRUE,
       body |-> [shape |-> "object", youtube_url |-> JStr(u)]] :
         e \in Endpoints, u \in GeneratedUrls }

\* one handler, called on every generated URL
NextUrl == \E req \in UrlRequests : Receive(1, req)

SpecUrl == Init /\ [][NextUrl]_vars

(***************************************************************************)
(* Claims                                                                  *)
(***************************************************************************)
Done(r) == pc[r] = "done"
Called(r) == pc[r] # "idle"
FilesOf(r) == { p \in fs : p[1] = unique_filename[r] }
CandidateSet == { CandidateExts[i] : i \in 1..Len(CandidateExts) }
ArtifactReturned(r) == downloaded_audio_file[r] # NoFile

\* C1 as claimed: after any job in which download_audio returned an artifact,
\* the artifact's path does not exist once the handler has returned, for
\* every outcome of the deletion attempt.
C1_ArtifactAlwaysGone ==
    \A r \in Reqs :
        Done(r) /\ ArtifactReturned(r) => downloaded_audio_file[r] \notin fs

\* C1 amended: after any job in which download_audio returned an artifact,
\* the artifact's path does not exist once the handler has returned, whether
\* transcription succeeded or raised, unless os.remove itself raised.
C1_ArtifactGoneUnlessRemoveRaised ==
    \A r \in Reqs :
        Done(r) /\ ArtifactReturned(r) /\ outcome[r].rm # "raised"
            => downloaded_audio_file[r] \notin fs

C1_Witness ==
    \E r \in Reqs :
        /\ Done(r) /\ ArtifactReturned(r)
        /\ outcome[r].tr = "raised" /\ outcome[r].rm = "ok"
        /\ downloaded_audio_file[r] \notin fs

\* C2 as claimed: when the downloader times out the response is the 500
\* envelope with the timeout message, and no file under the job's base
\* filename is left in the temp directory once the handler has returned.
C2_TimeoutLeavesNoFile ==
    \A r \in Reqs :
        Done(r) /\ outcome[r].dl = "timeout"
            => /\ resp[r] = Envelope(500, FALSE, "Download timed out", None)
               /\ FilesOf(r) = { }

\* C3: the finally block never changes the value the handler returns,
\* whether os.remove succeeds or raises.
C3_CleanupKeepsResult ==
    [][\A r \in Reqs : pc[r] = "finally" /\ pc'[r] = "done" => resp'[r] = resp[r]]_vars

C3_Witness ==
    \E r \in Reqs :
        /\ Done(r) /\ outcome[r].rm = "raised"
        /\ outcome[r].tr = "ok"
        /\ resp[r].status = 200 /\ resp[r].success

\* a request that passed validation: a JSON object with a truthy youtube_url
Validated(r) ==
    /\ Called(r)
    /\ request[r].is_json
    /\ request[r].body.shape = "object"
    /\ Truthy(request[r].body.youtube_url)

\* C4 as claimed: on a request that passed validation, whatever the JSON type
\* of youtube_url and whether or not the URL parser accepts it, the handler
\* returns the envelope (200, or 500 with success false and no data): no
\* exception leaves the handler.
C4_NoExceptionEscapes ==
    \A r \in Reqs :
        Done(r) /\ Validated(r)
            => /\ resp[r].envelope
               /\ \/ resp[r].status = 200
                  \/ resp[r].status = 500 /\ ~ resp[r].success /\ resp[r].data = None

\* C5 as claimed: with the credential unset, a request to /api/v2/transcribe
\* never starts the downloader subprocess and never contacts the remote API.
C5_FailFastWithoutCredential ==
    \A r \in Reqs :
        Called(r) /\ request[r].endpoint = "v2" /\ ~ OPENAI_API_KEY
            => calls[r].subprocess = 0 /\ calls[r].api = 0

RemoteInvokedWithoutCredential(r) ==
    /\ Done(r)
    /\ request[r].endpoint = "v2"
    /\ ~ OPENAI_API_KEY
    /\ calls[r].backend > 0

KeyNotConfigured == Envelope(500, FALSE, "OpenAI API key not configured", None)

\* C6 as claimed: the remote backend invoked without a credential gives the
\* 500 envelope "OpenAI API key not configured", never calls the remote API,
\* never opens the audio file, and the artifact is removed by cleanup.
C6_NoKeyArtifactRemoved ==
    \A r \in Reqs :
        RemoteInvokedWithoutCredential(r)
            => /\ resp[r] = KeyNotConfigured
               /\ calls[r].api = 0 /\ calls[r].opened = 0
               /\ downloaded_audio_file[r] \notin fs

\* C6 amended: the remote backend invoked without a credential gives the 500
\* envelope "OpenAI API key not configured", never calls the remote API,
\* never opens the audio file, and cleanup calls os.remove on the artifact,
\* which is gone afterwards unless os.remove raised.
C6_NoKeyArtifactRemovedUnlessRemoveRaised ==
    \A r \in Reqs :
        RemoteInvokedWithoutCredential(r)
            => /\ resp[r] = KeyNotConfigured
               /\ calls[r].api = 0 /\ calls[r].opened = 0
               /\ calls[r].remove = 1
               /\ outcome[r].rm # "raised" => downloaded_audio_file[r] \notin fs

C6_Witness ==
    \E r \in Reqs :
        /\ RemoteInvokedWithoutCredential(r)
        /\ ArtifactReturned(r)
        /\ outcome[r].rm = "ok"
        /\ downloaded_audio_file[r] \notin fs
        /\ resp[r] = KeyNotConfigured

\* C7: when the downloader exits with code zero and wrote none of
\* <base>.m4a, .mp3, .webm, .opus, download_audio raises its "not found"
\* error, no backend is called and the response is the 500 envelope.
C7_NoCandidateFails ==
    \A r \in Reqs :
        outcome[r].dl = "ok" /\ outcome[r].written \cap CandidateSet = { }
            => /\ pc[r] \in { "finally", "done" }
               /\ ~ ArtifactReturned(r)
               /\ calls[r].backend = 0
               /\ resp[r] = Envelope(500, FALSE,
                      "Downloaded audio file not found for: temp_audio_files/"
                          \o unique_filename[r], None)

C7_Witness ==
    \E r \in Reqs :
        /\ Done(r)
        /\ outcome[r].dl = "ok" /\ outcome[r].written = { "part" }
        /\ resp[r].status = 500
        /\ calls[r].backend = 0

\* a JSON request without a usable youtube_url: the body has no such field
\* (it is an object without the key, or no object at all), or the field is
\* null or empty
MissingYoutubeUrl(r) ==
    /\ Called(r)
    /\ request[r].is_json
    /\ \/ request[r].body.shape # "object"
       \/ ~ Truthy(request[r].body.youtube_url)

\* C8 as claimed: every JSON request whose youtube_url is missing or empty is
\* answered 400 without side effects: no downloader, no backend, no file
\* created or deleted.
C8_MissingUrlIs400 ==
    \A r \in Reqs :
        MissingYoutubeUrl(r)
            => /\ Done(r)
               /\ resp[r].status = 400
               /\ calls[r].subprocess = 0 /\ calls[r].backend = 0
               /\ calls[r].remove = 0
               /\ outcome[r] = NoOutcome

\* C9: a request whose content type is not JSON is answered 415 before the
\* body is parsed; nothing else of the handler runs.
C9_NonJsonIs415 ==
    \A r \in Reqs :
        Called(r) /\ ~ request[r].is_json
            => /\ Done(r)
               /\ resp[r] = Envelope(415, FALSE, "Content-Type must be application/json", None)
               /\ calls[r] = NoCalls
               /\ outcome[r] = NoOutcome
               /\ stages[r] = << "Received", "Failed" >>

C9_Witness ==
    \E r \in Reqs :
        /\ Done(r) /\ ~ request[r].is_json
        /\ request[r].endpoint = "v2"
        /\ resp[r].status = 415

\* the URL string the handler of request r was called on
InputUrl(r) == request[r].body.youtube_url.s

\* the parts a URL may have been generated from
PartsOf(u) == { p \in UrlParts : BuildUrl(p) = u }

\* the segments "v=<value>", blank values included, in the order of the query
RawVSegments(segs) == SelectSeq(segs, LAMBDA g : Len(g) >= 2 /\ g[1] = "v" /\ g[2] = "=")

\* the segments parse_qs files under "v": "<name>=<value>" with a name that
\* decodes to v and a value that is not blank
DecodedVSegments(segs) ==
    SelectSeq(segs, LAMBDA g : Len(g) >= 3 /\ UnquoteToken(g[1]) = "v" /\ g[2] = "=")

ValueOf(seg) == SubSeq(seg, 3, Len(seg))

NoVParam(segs) ==
    \A i \in 1..Len(segs) : segs[i] = << >> \/ UnquoteToken(segs[i][1]) # "v"

\* C11 as claimed: for every input without a v query parameter, malformed
\* inputs included, clean_youtube_url does not fail and returns its input,
\* and that unchanged URL is the one handed to the downloader.
C11_NoVPassesThrough ==
    \A r \in Reqs :
        Called(r) /\ Validated(r) /\ request[r].body.youtube_url.t = "str"
            => \A p \in PartsOf(InputUrl(r)) :
                   NoVParam(p.segs)
                       => /\ pc[r] = "downloading"
                          /\ calls[r].subprocess = 1
                          /\ youtube_url[r] = InputUrl(r)

FullRun(last) ==
    << "Received", "Normalizing", "Downloading", "Transcribing", "CleaningUp", last >>

DownloadFailedRun ==
    << "Received", "Normalizing", "Downloading", "CleaningUp", "Failed" >>

IsPrefix(s, t) == Len(s) <= Len(t) /\ s = SubSeq(t, 1, Len(s))

\* C12 as claimed: every validated request goes through Received,
\* Normalizing, Downloading, Transcribing, CleaningUp and then Completed or
\* Failed, in that order and without repeating a stage; a backend is called
\* only once download_audio has returned an artifact; a download failure skips
\* Transcribing, cleanup has nothing to remove and the job ends Failed; after
\* a transcription failure cleanup still runs before the job ends Failed.
C12_StageOrder ==
    \A r \in Reqs :
        Validated(r)
            => /\ \E run \in { FullRun("Completed"), FullRun("Failed"), DownloadFailedRun } :
                      IsPrefix(stages[r], run)
               /\ calls[r].backend > 0 => ArtifactReturned(r)
               /\ Done(r) =>
                      IF ~ ArtifactReturned(r)
                      THEN /\ stages[r] = DownloadFailedRun
                           /\ outcome[r].rm = "skipped"
                           /\ calls[r].backend = 0
                      ELSE IF outcome[r].tr = "ok"
                      THEN stages[r] = FullRun("Completed")
                      ELSE /\ stages[r] = FullRun("Failed")
                           /\ calls[r].remove = 1

\* str(e) of the first stage that failed in request r
FirstFailure(r) ==
    IF ~ ArtifactReturned(r)
    THEN DownloadError(outcome[r].dl, NoFile, unique_filename[r])
    ELSE outcome[r].ret.val

\* C13 as claimed: a validated request is answered 200 with success true,
\* "Transcription completed" and exactly the backend's text if and only if
\* the download and the backend call both succeeded; every other validated
\* request is answered 500 with data null and the message of the first stage
\* that failed.
C13_SuccessIffBothSucceeded ==
    \A r \in Reqs :
        Validated(r) /\ Done(r)
            => IF ArtifactReturned(r) /\ outcome[r].ret.ok
               THEN resp[r] = Envelope(200, TRUE, "Transcription completed",
                                       outcome[r].ret.val)
               ELSE /\ resp[r].envelope
                    /\ resp[r].status = 500 /\ ~ resp[r].success
                    /\ resp[r].data = None
                    /\ resp[r].message = FirstFailure(r)

DownloadFailed(r) ==
    \/ outcome[r].dl \in { "timeout", "error" }
    \/ outcome[r].dl = "ok" /\ ~ ArtifactReturned(r)

BackendFailed(r) == outcome[r].tr \in { "raised", "nokey" }

\* C14: within one request the downloader subprocess is started at most once
\* and a backend is called at most once; after a failure of either the
\* handler only cleans up and returns.
C14_NoRetry ==
    \A r \in Reqs :
        /\ calls[r].subprocess <= 1
        /\ calls[r].backend <= 1
        /\ DownloadFailed(r) => pc[r] \in { "finally", "done" } /\ calls[r].backend = 0
        /\ BackendFailed(r) => pc[r] \in { "finally", "done" }
        /\ Done(r) /\ (DownloadFailed(r) \/ BackendFailed(r)) => ~ resp[r].success

C14_Witness ==
    \E r1, r2 \in Reqs :
        /\ Done(r1) /\ outcome[r1].dl = "error"
        /\ calls[r1].subprocess = 1 /\ calls[r1].backend = 0
        /\ Done(r2) /\ outcome[r2].tr = "raised"
        /\ calls[r2].subprocess = 1 /\ calls[r2].backend = 1

\* C15 as claimed: at no time are two requests inside
\* whisper_model.transcribe.
C15_OneRequestInWhisper == Cardinality(in_whisper) <= 1

\* C16: with distinct uuid4 base names, every file a request's download
\* creates and every file its cleanup deletes lies under its own base name,
\* and the artifact it transcribes and removes is under its own base name and
\* under no other request's.
C16_OwnPathsOnly ==
    [][/\ \A p \in (fs' \ fs) \cup (fs \ fs') :
              \E r \in Reqs : pc'[r] # pc[r] /\ p[1] = unique_filename[r]
       /\ \A r \in Reqs :
              downloaded_audio_file'[r] # NoFile
                  => /\ downloaded_audio_file'[r][1] = unique_filename'[r]
                     /\ \A r2 \in Reqs \ { r } :
                            unique_filename'[r2] # downloaded_audio_file'[r][1]]_vars

C16_Witness ==
    \E r1, r2 \in Reqs :
        /\ r1 # r2
        /\ pc[r1] = "transcribing" /\ pc[r2] = "finally"
        /\ downloaded_audio_file[r1] \in fs /\ downloaded_audio_file[r2] \in fs
        /\ downloaded_audio_file[r1] # downloaded_audio_file[r2]

C18_NoOrphans ==
    (\A r \in Reqs : pc[r] \in { "idle", "done" }) => fs = { }

\* the priority the candidates are claimed to have, 0 for any other extension
C19_Rank(e) ==
    CASE e = "m4a"  -> 1
      [] e = "mp3"  -> 2
      [] e = "webm" -> 3
      [] e = "opus" -> 4
      [] OTHER      -> 0

\* C19 After a zero-exit download, download_audio returns the existing
\* candidate whose extension comes earliest in the order m4a, mp3, webm,
\* opus, for every set of files the downloader left; it returns nothing when
\* no candidate exists, and never a file with another extension.
C19_ProbeOrder ==
    \A r \in Reqs :
        outcome[r].dl = "ok" =>
            LET existing == { e \in outcome[r].written : C19_Rank(e) > 0 }
            IN  IF existing = { }
                THEN ~ ArtifactReturned(r)
                ELSE \E e \in existing :
                        /\ \A f \in existing : C19_Rank(e) <= C19_Rank(f)
                        /\ downloaded_audio_file[r] = PathOf(unique_filename[r], e)

\* mp3 and opus exist beside a partial file, m4a does not: mp3 is returned
C19_Witness ==
    \E r \in Reqs :
        /\ outcome[r].dl = "ok"
        /\ outcome[r].written = { "mp3", "opus", "part" }
        /\ downloaded_audio_file[r] = PathOf(unique_filename[r], "mp3")

\* request a on /api/v1/transcribe and request b on /api/v2/transcribe carry
\* the same body and met the same downloader outcome, the same deletion
\* outcome and the same return or exception of their backend function
C20_SideBySide(a, b) ==
    /\ Done(a) /\ Done(b)
    /\ request[a].endpoint = "v1" /\ request[b].endpoint = "v2"
    /\ request[a].is_json = request[b].is_json
    /\ request[a].body = request[b].body
    /\ outcome[a].dl = outcome[b].dl
    /\ outcome[a].written = outcome[b].written
    /\ outcome[a].rm = outcome[b].rm
    /\ outcome[a].ret = outcome[b].ret

\* the extensions of the files left under the request's base filename
C20_Left(r) == { p[2] : p \in FilesOf(r) }

\* the response with the base filename uuid4 drew for this run written as
\* <base>: the one message that quotes it is download_audio's "not found"
C20_Resp(r) ==
    IF resp[r].message = DownloadError("ok", NoFile, unique_filename[r])
    THEN [resp[r] EXCEPT !.message = DownloadError("ok", NoFile, "<base>")]
    ELSE resp[r]

\* C20 The v1 and v2 handlers differ in backend selection only: on the same
\* request, with the same downloader outcome, the same deletion outcome and
\* backends that return the same text or raise the same error, they pass
\* through the same stages, leave the same files under their base filename
\* and return the same status and envelope (the two runs' uuid4 draws being
\* taken as the same name).
C20_SameButBackend ==
    \A a, b \in Reqs :
        C20_SideBySide(a, b) =>
            /\ stages[a] = stages[b]
            /\ C20_Left(a) = C20_Left(b)
            /\ C20_Resp(a) = C20_Resp(b)

\* both backends raised the same error after the downloader left the audio
\* file and a partial file, and the deletion failed in both handlers
C20_Witness ==
    \E a, b \in Reqs :
        /\ C20_SideBySide(a, b)
        /\ outcome[a].tr = "raised" /\ outcome[b].tr = "raised"
        /\ outcome[a].written = { "webm", "part" }
        /\ outcome[a].rm = "raised"

====
